---- MODULE Spec2Model ----
(***************************************************************************)
(* Model of src/components/weather.js: the Weather component's state       *)
(* (city input, cities, weatherData), its handlers (handleInputChange,     *)
(* handleAddCity, handleDeleteCity), the asynchronous fetchWeather         *)
(* invocations in flight, and the pure helpers getWeatherIcon and isDay.   *)
(***************************************************************************)
EXTENDS Integers, Sequences, FiniteSets, TLC

VARIABLES
    city,         \* useState(''): text of the search field            (line 83)
    cities,       \* useState([]): the ordered list of tracked cities  (line 84)
    weatherData,  \* useState({}): object keyed by city name           (line 85)
    fetches,      \* the fetchWeather invocations, in start order      (line 91)
    description,  \* argument of getWeatherIcon                        (line 49)
    isDayArg,     \* argument isDay of getWeatherIcon                  (line 49)
    icon,         \* value returned by getWeatherIcon
    current,      \* argument current of isDay                         (line 78)
    sunrise,      \* argument sunrise of isDay
    sunset,       \* argument sunset of isDay
    dayResult     \* value returned by isDay

storeVars == <<city, cities, weatherData, fetches>>
iconVars  == <<description, isDayArg, icon>>
dayVars   == <<current, sunrise, sunset, dayResult>>
vars      == <<city, cities, weatherData, fetches, description, isDayArg, icon,
               current, sunrise, sunset, dayResult>>

-----------------------------------------------------------------------------
(* Bounds *)

\* Number of fetchWeather invocations (accepted handleAddCity calls) explored.
MaxFetches == 2

\* A description is the concatenation of at most MaxParts pieces.
MaxParts == 2

\* Timestamps handed to isDay range over 0..MaxTime.
MaxTime == 4

-----------------------------------------------------------------------------
(* Inputs *)

\* Values typed into the search field: the empty string and two city names.
CityInputs == {"", "a", "b"}

\* The same with a whitespace-only string in place of the second name.
BlankInputs == {"", " ", "a"}

\* Bodies the provider can answer the current-conditions request with: a
\* well-formed body and a 2xx body without the documented fields (null).
Paris18 == [name |-> "Paris", main |-> [temp |-> 18]]
NullBody == [null |-> TRUE]
CurrentBodies == {Paris18, NullBody}

\* Entries of the provider's forecast list (item.dt, item.main, item.wind,
\* item.weather[0]).
Item1 == [dt |-> 1, main |-> [temp |-> 5, feels_like |-> 4, humidity |-> 60],
          wind |-> [speed |-> 3],
          weather |-> <<[description |-> "light rain", icon |-> "10d"]>>]
Item2 == [dt |-> 2, main |-> [temp |-> 9, feels_like |-> 8, humidity |-> 40],
          wind |-> [speed |-> 1],
          weather |-> <<[description |-> "clear sky", icon |-> "01d"]>>]

\* Forecast bodies: data.list in provider order (not necessarily by dt).
\* Every body carries a list of complete entries, so that the updater of
\* lines 96-110 evaluates; a body on which it throws is outside these inputs.
ForecastLists == {<<Item1>>, <<Item2, Item1>>}
ForecastBodies == {[list |-> l] : l \in ForecastLists}

\* Outcome of one axios.get: the promise rejects (network error, non-2xx
\* status) or resolves with a response object carrying data.
Rejected == [rejected |-> TRUE]
Resolved(body) == [data |-> body]
NotSettled == [pendingRequest |-> TRUE]
NoResponse == [none |-> TRUE]

-----------------------------------------------------------------------------
(* Helpers of the store *)

\* JavaScript truthiness of a string: every non-empty string is truthy.
Truthy(s) == s # ""

\* Array.prototype.includes
Includes(arr, x) == \E i \in 1..Len(arr) : arr[i] = x

FilterOutInverted(arr, cityName) == SelectSeq(arr, LAMBDA c : c = cityName)

\* cities.filter((c) => c !== cityName)
FilterOut(arr, cityName) == SelectSeq(arr, LAMBDA c : c # cityName)

\* item => ({date: new Date(item.dt * 1000), temp: item.main.temp, ...})
ForecastPoint(item) ==
    [date        |-> item.dt * 1000,
     temp        |-> item.main.temp,
     feels_like  |-> item.main.feels_like,
     humidity    |-> item.main.humidity,
     wind_speed  |-> item.wind.speed,
     description |-> item.weather[1].description,
     icon        |-> item.weather[1].icon]

MapForecastReversed(list) ==
    [i \in 1..Len(list) |-> ForecastPoint(list[Len(list) + 1 - i])]

\* forecastResponse.data.list.map(item => ...)
MapForecast(list) == [i \in 1..Len(list) |-> ForecastPoint(list[i])]

\* {current: weatherResponse.data, forecast: forecastResponse.data.list.map(...)}
Snapshot(weatherResponse, forecastResponse) ==
    [current  |-> weatherResponse.data,
     forecast |-> MapForecast(forecastResponse.data.list)]

MergeKeyReplacesAll(prevData, cityName, snapshot) ==
    [k \in {cityName} |-> snapshot]

\* (prevData) => ({...prevData, [cityName]: snapshot})
MergeKey(prevData, cityName, snapshot) ==
    [k \in (DOMAIN prevData) \cup {cityName} |->
        IF k = cityName THEN snapshot ELSE prevData[k]]

OmitKeyClearsAll(prevData, cityName) == [k \in {} |-> prevData[k]]

\* (prevData) => { const { [cityName]: _, ...rest } = prevData; return rest; }
OmitKey(prevData, cityName) ==
    [k \in (DOMAIN prevData) \ {cityName} |-> prevData[k]]

\* catch (error) { console.error(...) }: the store is not touched.
CatchError(prevData, cityName) == prevData

EmptyStore == [k \in {} |-> NoResponse]

-----------------------------------------------------------------------------
(* The store: state after construction, and the handlers.  A handler runs *)
(* to completion on the state of the latest render; the updaters it hands *)
(* to setWeatherData are applied within the same step.                   *)

StoreIdle ==
    /\ city = ""
    /\ cities = <<>>
    /\ weatherData = EmptyStore
    /\ fetches = <<>>

\* No call of getWeatherIcon or isDay is being followed.
PureIdle ==
    /\ description = <<>>
    /\ isDayArg = TRUE
    /\ icon = "none"
    /\ current = 0
    /\ sunrise = 0
    /\ sunset = 0
    /\ dayResult = "none"

Init == StoreIdle /\ PureIdle

\* A new invocation of fetchWeather(cityName): suspended at the first await.
StartFetch(cityName) ==
    [cityName |-> cityName, pc |-> "awaitWeather",
     weatherResponse |-> NoResponse, settled |-> NotSettled]

\* setCity(e.target.value)
handleInputChange(value) ==
    /\ city' = value
    /\ UNCHANGED <<cities, weatherData, fetches>>
    /\ UNCHANGED <<iconVars, dayVars>>

handleAddCity ==
    /\ IF Truthy(city) /\ ~Includes(cities, city)
       THEN /\ Len(fetches) < MaxFetches
            /\ cities' = Append(cities, city)
            /\ fetches' = Append(fetches, StartFetch(city))
            /\ city' = ""
       ELSE UNCHANGED <<city, cities, fetches>>
    /\ UNCHANGED weatherData
    /\ UNCHANGED <<iconVars, dayVars>>

\* Taken for any name: the filter and the updater also run when cityName is
\* not in cities.
handleDeleteCity(cityName) ==
    /\ cities' = FilterOut(cities, cityName)
    /\ weatherData' = OmitKey(weatherData, cityName)
    /\ UNCHANGED <<city, fetches>>
    /\ UNCHANGED <<iconVars, dayVars>>

\* The provider answers the request a fetchWeather invocation is awaiting.
Outcomes(pc) ==
    IF pc = "awaitWeather"
    THEN {Rejected} \cup {Resolved(b) : b \in CurrentBodies}
    ELSE {Rejected} \cup {Resolved(b) : b \in ForecastBodies}

axiosSettle(id, outcome) ==
    /\ id \in 1..Len(fetches)
    /\ fetches[id].pc \in {"awaitWeather", "awaitForecast"}
    /\ fetches[id].settled = NotSettled
    /\ outcome \in Outcomes(fetches[id].pc)
    /\ fetches' = [fetches EXCEPT ![id].settled = outcome]
    /\ UNCHANGED <<city, cities, weatherData>>
    /\ UNCHANGED <<iconVars, dayVars>>

\* fetchWeather has returned (after line 110 or after the catch block).
Finished(f) ==
    [f EXCEPT !.pc = "done", !.weatherResponse = NoResponse, !.settled = NoResponse]

\* fetchWeather resumes after the await whose promise has settled.
fetchWeatherResume(id) ==
    /\ id \in 1..Len(fetches)
    /\ fetches[id].pc \in {"awaitWeather", "awaitForecast"}
    /\ fetches[id].settled # NotSettled
    /\ LET f == fetches[id] IN
       IF f.settled = Rejected
       THEN /\ weatherData' = CatchError(weatherData, f.cityName)
            /\ fetches' = [fetches EXCEPT ![id] = Finished(f)]
       ELSE IF f.pc = "awaitWeather"
       THEN /\ fetches' = [fetches EXCEPT ![id] =
                              [f EXCEPT !.pc = "awaitForecast",
                                        !.weatherResponse = f.settled,
                                        !.settled = NotSettled]]
            /\ UNCHANGED weatherData
       ELSE /\ weatherData' = MergeKey(weatherData, f.cityName,
                                       Snapshot(f.weatherResponse, f.settled))
            /\ fetches' = [fetches EXCEPT ![id] = Finished(f)]
    /\ UNCHANGED <<city, cities>>
    /\ UNCHANGED <<iconVars, dayVars>>

NextOn(inputs) ==
    \/ \E value \in inputs : handleInputChange(value)
    \/ handleAddCity
    \/ \E cityName \in inputs \ {""} : handleDeleteCity(cityName)
    \/ \E id \in 1..MaxFetches :
          \E outcome \in Outcomes("awaitWeather") \cup Outcomes("awaitForecast") :
             axiosSettle(id, outcome)
    \/ \E id \in 1..MaxFetches : fetchWeatherResume(id)

Next == NextOn(CityInputs)

Spec == Init /\ [][Next]_vars

\* One city name, which can be added, removed and added again, so that several
\* fetches for the same key can be in flight.
OneCityInputs == {"", "a"}

NextOneCity == NextOn(OneCityInputs)

\* The event loop runs the continuation of every settled await.
FairSpec ==
    /\ Init
    /\ [][NextOneCity]_vars
    /\ \A id \in 1..MaxFetches : WF_vars(fetchWeatherResume(id))

NextBlank == NextOn(BlankInputs)

\* The same component when the user can also type a whitespace-only name.
BlankSpec == Init /\ [][NextBlank]_vars

-----------------------------------------------------------------------------
(* getWeatherIcon and isDay *)

\* Strings are sequences of one-character strings.
S_clear == <<"c", "l", "e", "a", "r">>
S_few_clouds == <<"f", "e", "w", " ", "c", "l", "o", "u", "d", "s">>
S_scattered_clouds == <<"s", "c", "a", "t", "t", "e", "r", "e", "d", " ", "c", "l", "o", "u", "d", "s">>
S_broken_clouds == <<"b", "r", "o", "k", "e", "n", " ", "c", "l", "o", "u", "d", "s">>
S_overcast == <<"o", "v", "e", "r", "c", "a", "s", "t">>
S_shower == <<"s", "h", "o", "w", "e", "r">>
S_drizzle == <<"d", "r", "i", "z", "z", "l", "e">>
S_rain == <<"r", "a", "i", "n">>
S_thunderstorm == <<"t", "h", "u", "n", "d", "e", "r", "s", "t", "o", "r", "m">>
S_snow == <<"s", "n", "o", "w">>
S_sleet == <<"s", "l", "e", "e", "t">>
S_mist == <<"m", "i", "s", "t">>
S_fog == <<"f", "o", "g">>
S_dust == <<"d", "u", "s", "t">>
S_sand == <<"s", "a", "n", "d">>

UpperCase == <<"A", "B", "C", "D", "E", "F", "G", "H", "I", "J", "K", "L", "M",
               "N", "O", "P", "Q", "R", "S", "T", "U", "V", "W", "X", "Y", "Z">>
LowerCase == <<"a", "b", "c", "d", "e", "f", "g", "h", "i", "j", "k", "l", "m",
               "n", "o", "p", "q", "r", "s", "t", "u", "v", "w", "x", "y", "z">>

\* String.prototype.toLowerCase, one character
LowerChar(c) ==
    IF \E i \in 1..Len(UpperCase) : UpperCase[i] = c
    THEN LowerCase[CHOOSE i \in 1..Len(UpperCase) : UpperCase[i] = c]
    ELSE c

RECURSIVE ToLowerCase(_)
\* String.prototype.toLowerCase
ToLowerCase(s) ==
    IF s = <<>> THEN <<>> ELSE <<LowerChar(Head(s))>> \o ToLowerCase(Tail(s))

\* String.prototype.includes
StrIncludes(s, sub) ==
    \E p \in 0..(Len(s) - Len(sub)) : SubSeq(s, p + 1, p + Len(sub)) = sub

getWeatherIconRainFirst(desc, isDayFlag) ==
    LET lowerDesc == ToLowerCase(desc) IN
    IF StrIncludes(lowerDesc, S_clear)
    THEN (IF isDayFlag THEN "WiDaySunny" ELSE "WiNightClear")
    ELSE IF StrIncludes(lowerDesc, S_few_clouds)
    THEN (IF isDayFlag THEN "WiDayCloudy" ELSE "WiNightAltCloudy")
    ELSE IF StrIncludes(lowerDesc, S_scattered_clouds) THEN "WiCloud"
    ELSE IF StrIncludes(lowerDesc, S_broken_clouds) \/ StrIncludes(lowerDesc, S_overcast)
    THEN "WiCloudy"
    ELSE IF StrIncludes(lowerDesc, S_rain) THEN "WiRain"
    ELSE IF StrIncludes(lowerDesc, S_shower) \/ StrIncludes(lowerDesc, S_drizzle)
    THEN "WiShowers"
    ELSE IF StrIncludes(lowerDesc, S_thunderstorm) THEN "WiThunderstorm"
    ELSE IF StrIncludes(lowerDesc, S_snow) \/ StrIncludes(lowerDesc, S_sleet)
    THEN "WiSnow"
    ELSE IF StrIncludes(lowerDesc, S_mist) \/ StrIncludes(lowerDesc, S_fog)
    THEN "WiFog"
    ELSE IF StrIncludes(lowerDesc, S_dust) \/ StrIncludes(lowerDesc, S_sand)
    THEN "WiDust"
    ELSE "WiDaySunny"

\* switch (true) { case lowerDesc.includes('clear'): ... default: ... }
getWeatherIcon(desc, isDayFlag) ==
    LET lowerDesc == ToLowerCase(desc) IN
    IF StrIncludes(lowerDesc, S_clear)
    THEN (IF isDayFlag THEN "WiDaySunny" ELSE "WiNightClear")
    ELSE IF StrIncludes(lowerDesc, S_few_clouds)
    THEN (IF isDayFlag THEN "WiDayCloudy" ELSE "WiNightAltCloudy")
    ELSE IF StrIncludes(lowerDesc, S_scattered_clouds) THEN "WiCloud"
    ELSE IF StrIncludes(lowerDesc, S_broken_clouds) \/ StrIncludes(lowerDesc, S_overcast)
    THEN "WiCloudy"
    ELSE IF StrIncludes(lowerDesc, S_shower) \/ StrIncludes(lowerDesc, S_drizzle)
    THEN "WiShowers"
    ELSE IF StrIncludes(lowerDesc, S_rain) THEN "WiRain"
    ELSE IF StrIncludes(lowerDesc, S_thunderstorm) THEN "WiThunderstorm"
    ELSE IF StrIncludes(lowerDesc, S_snow) \/ StrIncludes(lowerDesc, S_sleet)
    THEN "WiSnow"
    ELSE IF StrIncludes(lowerDesc, S_mist) \/ StrIncludes(lowerDesc, S_fog)
    THEN "WiFog"
    ELSE IF StrIncludes(lowerDesc, S_dust) \/ StrIncludes(lowerDesc, S_sand)
    THEN "WiDust"
    ELSE "WiDaySunny"

isDayInclusive(cur, rise, set) == cur >= rise /\ cur <= set

\* current > sunrise && current < sunset
isDay(cur, rise, set) == cur > rise /\ cur < set

\* Pieces the descriptions handed to getWeatherIcon are built from.
Pieces ==
    {<<"c", "l", "e", "a", "r">>,
     <<"f", "e", "w">>,
     <<" ", "c", "l", "o", "u", "d", "s">>,
     <<"s", "c", "a", "t", "t", "e", "r", "e", "d">>,
     <<"b", "r", "o", "k", "e", "n">>,
     <<"o", "v", "e", "r", "c", "a", "s", "t">>,
     <<"S", "h", "o", "w", "e", "r">>,
     <<"d", "r", "i", "z", "z", "l", "e">>,
     <<"R", "A", "I", "N">>,
     <<"t", "h", "u", "n", "d", "e", "r", "s", "t", "o", "r", "m">>,
     <<"s", "n", "o", "w">>,
     <<"s", "l", "e", "e", "t">>,
     <<"m", "i", "s", "t">>,
     <<"f", "o", "g">>,
     <<"d", "u", "s", "t">>,
     <<"s", "a", "n", "d">>,
     <<"h", "a", "z", "e">>}

RECURSIVE DescriptionsOf(_)
DescriptionsOf(n) ==
    IF n = 0 THEN {<<>>}
    ELSE {d \o p : d \in DescriptionsOf(n - 1), p \in Pieces}

Descriptions == UNION {DescriptionsOf(n) : n \in 0..MaxParts}

IconInit ==
    /\ StoreIdle
    /\ description \in Descriptions
    /\ isDayArg \in BOOLEAN
    /\ icon = "none"
    /\ current = 0 /\ sunrise = 0 /\ sunset = 0 /\ dayResult = "none"

\* A render evaluates getWeatherIcon(description, isDay)
renderIcon ==
    /\ icon = "none"
    /\ icon' = getWeatherIcon(description, isDayArg)
    /\ UNCHANGED <<description, isDayArg, storeVars, dayVars>>

IconSpec == IconInit /\ [][renderIcon]_vars

DayInit ==
    /\ StoreIdle
    /\ description = <<>> /\ isDayArg = TRUE /\ icon = "none"
    /\ current \in 0..MaxTime
    /\ sunrise \in 0..MaxTime
    /\ sunset \in 0..MaxTime
    /\ dayResult = "none"

\* A render evaluates isDay(current, sunrise, sunset)
renderIsDay ==
    /\ dayResult = "none"
    /\ dayResult' = IF isDay(current, sunrise, sunset) THEN "true" ELSE "false"
    /\ UNCHANGED <<current, sunrise, sunset, storeVars, iconVars>>

DaySpec == DayInit /\ [][renderIsDay]_vars

-----------------------------------------------------------------------------
(* Properties *)

Elems(seq) == {seq[i] : i \in 1..Len(seq)}

Keys(store) == DOMAIN store

StoreNames == CityInputs \ {""}

\* The invocation id is at its second await and both requests have resolved.
BothLookupsResolved(id) ==
    /\ id \in 1..Len(fetches)
    /\ fetches[id].pc = "awaitForecast"
    /\ fetches[id].settled \notin {NotSettled, Rejected}

\* C1: every key of weatherData is a city name currently in cities (no
\* snapshot for a city absent from the registry), whatever the interleaving
\* of adds, removals and fetch completions.
C1_StoreKeysInRegistry ==
    \A k \in Keys(weatherData) : k \in Elems(cities)

NoDuplicates(seq) ==
    \A i, j \in 1..Len(seq) : i # j => seq[i] # seq[j]

PositionOf(seq, x) == CHOOSE i \in 1..Len(seq) : seq[i] = x

SameRelativeOrder(old, new) ==
    \A x, y \in Elems(new) :
        (PositionOf(new, x) < PositionOf(new, y))
            <=> (PositionOf(old, x) < PositionOf(old, y))

C2_RegistryStep ==
    /\ handleAddCity =>
          \/ cities' = cities
          \/ /\ city \notin Elems(cities)
             /\ Len(cities') = Len(cities) + 1
             /\ SubSeq(cities', 1, Len(cities)) = cities
             /\ cities'[Len(cities')] = city
    /\ \A n \in StoreNames :
          handleDeleteCity(n) =>
             /\ Elems(cities') = Elems(cities) \ {n}
             /\ SameRelativeOrder(cities, cities')
             /\ (n \notin Elems(cities) => cities' = cities)
    /\ (~handleAddCity /\ \A n \in StoreNames : ~handleDeleteCity(n))
          => cities' = cities

StartedByCurrentAdd(id, x) ==
    /\ fetches[id].cityName = x
    /\ x \in Elems(cities)
    /\ \A j \in (id + 1)..Len(fetches) : fetches[j].cityName # x

\* C3: an entry for x appears in weatherData only by the successful completion
\* of the fetch started by the add that currently registers x; after
\* removeCity(x) a fetch started earlier never makes the entry reappear.
C3_NoEntryFromStaleFetch ==
    [][\A x \in StoreNames :
          (x \notin Keys(weatherData) /\ x \in Keys(weatherData'))
             => \E id \in 1..Len(fetches) :
                   fetchWeatherResume(id) /\ StartedByCurrentAdd(id, x)]_vars

\* A body with the documented fields of the current-conditions response.
DocumentedCurrentBody(body) == "main" \in DOMAIN body

SameEntry(old, new, x) ==
    /\ (x \in Keys(old)) <=> (x \in Keys(new))
    /\ x \in Keys(old) => new[x] = old[x]

\* C4: weatherData is updated for a name only when both lookups completed
\* successfully with well-formed payloads; on a failed lookup or a malformed
\* payload the entry of that name is left exactly as it was.
C4_NoWriteUnlessBothSucceed ==
    [][\A id \in 1..Len(fetches) :
          (/\ fetchWeatherResume(id)
           /\ ~(/\ BothLookupsResolved(id)
                /\ DocumentedCurrentBody(fetches[id].weatherResponse.data)))
             => SameEntry(weatherData, weatherData', fetches[id].cityName)]_vars

\* Empty or whitespace-only input.
IsBlank(s) == s \in {"", " "}

\* C5: handleAddCity with an empty, blank or already registered name changes
\* neither the registry nor weatherData and starts no fetch.
C5_RejectedAddIsNoOp ==
    [][(handleAddCity /\ (IsBlank(city) \/ city \in Elems(cities)))
          => UNCHANGED <<cities, weatherData, fetches>>]_vars

\* C6: a successful completion for city x writes key x and leaves the
\* presence and the value of every other key as they were.
C6_CompletionWritesOnlyOwnKey ==
    [][\A id \in 1..Len(fetches) :
          (BothLookupsResolved(id) /\ fetchWeatherResume(id))
             => LET x == fetches[id].cityName IN
                /\ x \in Keys(weatherData')
                /\ \A y \in (Keys(weatherData) \cup Keys(weatherData')) \ {x} :
                      /\ y \in Keys(weatherData)
                      /\ y \in Keys(weatherData')
                      /\ weatherData'[y] = weatherData[y]]_vars

\* Both fetches have completed and both snapshots are in the store.
C6_Witness ==
    /\ Keys(weatherData) = {"a", "b"}
    /\ Len(fetches) = 2
    /\ \A id \in 1..2 : fetches[id].pc = "done"
    /\ weatherData["a"] # weatherData["b"]

\* The snapshot stored for name is built from the current-conditions body
\* and the forecast list: same number of points, in the list's order.
HoldsSnapshotOf(name, body, list) ==
    /\ name \in Keys(weatherData)
    /\ weatherData[name].current = body
    /\ Len(weatherData[name].forecast) = Len(list)
    /\ \A i \in 1..Len(list) :
          LET point == weatherData[name].forecast[i] IN
          /\ point.date = list[i].dt * 1000
          /\ point.temp = list[i].main.temp
          /\ point.feels_like = list[i].main.feels_like
          /\ point.humidity = list[i].main.humidity
          /\ point.wind_speed = list[i].wind.speed
          /\ point.description = list[i].weather[1].description
          /\ point.icon = list[i].weather[1].icon

\* Both lookups of invocation id, for name, have resolved with these payloads.
ResolvedWith(id, name, body, list) ==
    /\ BothLookupsResolved(id)
    /\ fetches[id].cityName = name
    /\ fetches[id].weatherResponse = Resolved(body)
    /\ fetches[id].settled = Resolved([list |-> list])

\* C9: once both lookups of the fetch started by an accepted add have
\* succeeded, weatherData eventually holds under that name the snapshot made
\* of the current-conditions response and of the forecast list, point for
\* point in the provider's order.
C9_SnapshotEventuallyStored ==
    \A id \in 1..MaxFetches : \A name \in StoreNames :
       \A body \in CurrentBodies : \A list \in ForecastLists :
          ResolvedWith(id, name, body, list)
             ~> HoldsSnapshotOf(name, body, list)

\* A snapshot whose forecast is in the provider's order, not in time order.
C9_Witness ==
    /\ HoldsSnapshotOf("a", Paris18, <<Item2, Item1>>)
    /\ fetches[1].pc = "done"

\* C10: a key leaves weatherData only in a handleDeleteCity step for that key.
C10_OnlyRemoveDeletes ==
    [][\A x \in Keys(weatherData) :
          x \notin Keys(weatherData') => handleDeleteCity(x)]_vars

\* "b" was added after "a", its fetch completed and "b" was removed again; the
\* snapshot of "a" is still there.
C10_Witness ==
    /\ Len(fetches) = 2
    /\ fetches[1].cityName = "a"
    /\ fetches[2].cityName = "b"
    /\ fetches[2].pc = "done"
    /\ cities = <<"a">>
    /\ Keys(weatherData) = {"a"}

\* The same letter, whatever the case.
SameLetter(c, d) ==
    \/ c = d
    \/ \E i \in 1..Len(UpperCase) : {c, d} = {UpperCase[i], LowerCase[i]}

\* sub occurs in s, case-insensitively.
OccursIn(sub, s) ==
    \E p \in 0..(Len(s) - Len(sub)) :
       \A k \in 1..Len(sub) : SameLetter(s[p + k], sub[k])

\* The rules in priority order.
Rules ==
    << [category |-> "clear",            substrings |-> {S_clear}],
       [category |-> "few-clouds",       substrings |-> {S_few_clouds}],
       [category |-> "scattered-clouds", substrings |-> {S_scattered_clouds}],
       [category |-> "broken-clouds",    substrings |-> {S_broken_clouds, S_overcast}],
       [category |-> "shower",           substrings |-> {S_shower, S_drizzle}],
       [category |-> "rain",             substrings |-> {S_rain}],
       [category |-> "thunderstorm",     substrings |-> {S_thunderstorm}],
       [category |-> "snow",             substrings |-> {S_snow, S_sleet}],
       [category |-> "mist",             substrings |-> {S_mist, S_fog}],
       [category |-> "dust",             substrings |-> {S_dust, S_sand}] >>

RuleMatches(i, s) == \E sub \in Rules[i].substrings : OccursIn(sub, s)

CategoryOf(s) ==
    IF \E i \in 1..Len(Rules) : RuleMatches(i, s)
    THEN Rules[CHOOSE i \in 1..Len(Rules) :
                  /\ RuleMatches(i, s)
                  /\ \A j \in 1..(i - 1) : ~RuleMatches(j, s)].category
    ELSE "default"

IconOfCategory(category, day) ==
    CASE category = "clear"            -> (IF day THEN "WiDaySunny" ELSE "WiNightClear")
      [] category = "few-clouds"       -> (IF day THEN "WiDayCloudy" ELSE "WiNightAltCloudy")
      [] category = "scattered-clouds" -> "WiCloud"
      [] category = "broken-clouds"    -> "WiCloudy"
      [] category = "shower"           -> "WiShowers"
      [] category = "rain"             -> "WiRain"
      [] category = "thunderstorm"     -> "WiThunderstorm"
      [] category = "snow"             -> "WiSnow"
      [] category = "mist"             -> "WiFog"
      [] category = "dust"             -> "WiDust"
      [] category = "default"          -> "WiDaySunny"

\* C7: getWeatherIcon returns the icon of the first rule, in priority order,
\* one of whose substrings occurs case-insensitively in the description, and
\* the day flag changes the result only for clear and few-clouds.
C7_FirstMatchingRuleWins ==
    icon # "none" =>
       /\ icon = IconOfCategory(CategoryOf(description), isDayArg)
       /\ (CategoryOf(description) \notin {"clear", "few-clouds"})
             => getWeatherIcon(description, ~isDayArg) = icon
       /\ (CategoryOf(description) \in {"clear", "few-clouds"})
             => getWeatherIcon(description, ~isDayArg) # icon

\* A description with both "rain" and "shower" resolved to the showers icon.
C7_Witness ==
    /\ OccursIn(S_rain, description)
    /\ OccursIn(S_shower, description)
    /\ icon = "WiShowers"

\* C8: isDay is false at sunrise and at sunset, true strictly between them
\* and false outside.
C8_StrictlyBetween ==
    dayResult # "none" =>
       /\ (current = sunrise \/ current = sunset) => dayResult = "false"
       /\ (sunrise < current /\ current < sunset) => dayResult = "true"
       /\ (current < sunrise \/ current > sunset) => dayResult = "false"

\* isDay was evaluated at sunrise, on a day with sunrise before sunset.
C8_Witness ==
    /\ dayResult = "false"
    /\ current = sunrise
    /\ sunrise < sunset

====
